---- MODULE Spec2Model ----
(***************************************************************************)
(* Model of GlueConnection (dbt/adapters/glue/gluedbapi/connection.py):    *)
(* the client-side session state machine that drives a remote Glue         *)
(* interactive session: connect(), _start_session(), _init_session(),      *)
(* the cached `state` property, cancel() and close_session().              *)
(*                                                                         *)
(* One connection object and its credentials object are modelled; the      *)
(* remote service is the environment: it owns the status of every session, *)
(* changes it on its own, and may reject or fail any call.                 *)
(***************************************************************************)
EXTENDS Naturals, Integers, Sequences, FiniteSets

\* ------------------------------------------------------------------ bounds
MaxSessions == 2   \* session ids the remote service hands out: 1..MaxSessions
MaxTimeout  == 1   \* credentials.session_provisionning_timeout_in_seconds in 0..MaxTimeout
MaxSlip     == 1   \* seconds that pass between two iterations of wait(1): 1..MaxSlip
MaxStmts    == 2   \* statements the remote service lists for a session: 0..MaxStmts
MaxSqlLen   == 4   \* characters of the string passed to SqlWrapper2.execute: 1..MaxSqlLen
MaxColumns  == 3   \* rows the describe statement of get_columns_in_relation yields: 0..MaxColumns
MaxFields   == 2   \* columns of the DataFrame SqlWrapper2.execute serialises: 0..MaxFields
MaxRows     == 2   \* rows of that DataFrame, and rows hudi_merge_table's request yields: 0..MaxRows

\* the loop raises once elapsed > timeout, so elapsed stays below this; the
\* guard on it only keeps the counter finite
MaxElapsed == MaxTimeout + MaxSlip + 1

\* ------------------------------------------------- GlueSessionState values
READY        == "READY"
FAILED       == "FAILED"
PROVISIONING == "PROVISIONING"
CLOSED       == "CLOSED"

NoState  == "None"      \* self._state / self._session before anything was observed
ABSENT   == "ABSENT"    \* the remote service knows no session of that id
ERROR    == "ERROR"     \* a remote call raised instead of answering
NoId     == 0           \* session id None (or empty)

SessionStates == {READY, FAILED, PROVISIONING, CLOSED}
SessionIds    == 1..MaxSessions
StmtStates    == {"WAITING", "RUNNING", "AVAILABLE", "ERROR", "CANCELLED"}

VARIABLES
    cred_session_id,  \* credentials.session_id (NoId when empty)
    timeout,          \* credentials.session_provisionning_timeout_in_seconds
    _session,         \* the Id inside self._session (NoId when self._session is None)
    _state,           \* self._state
    remote,           \* remote service: status of every session id
    nextId,           \* next fresh id the remote service creates (uuid4 in the code)
    pc,               \* position of the caller inside connect() or cancel(); "idle" between calls
    elapsed,          \* value the next iteration of `for elapsed in wait(1)` sees
    exact,            \* the clock advanced exactly one second at every iteration so far
    pollReads,        \* reads of self.state made by the poll loop so far
                      \* (the three are kept when the loop raises, dropped when it returns)
    stmts,            \* cancel(): the states of the statements of response["Statements"]
                      \* the loop has taken so far (a statement's Id is its position)
    cancelled,        \* cancel(): Ids cancel_statement was called for and answered
    calls,            \* remote calls issued by the operation in progress / last finished
    failedLookups,    \* session ids whose get_session raised in that operation
    lastRead,         \* the last evaluation of the `state` property in that operation
    result,           \* outcome of the last finished operation
    prev,             \* outcome of the operation finished before that one
    atCall,           \* what held when the operation in progress / last finished began
    observedReady     \* session ids some get_session call reported READY

\* A second GlueConnection of the same process, constructed from the same
\* credentials object: it shares cred_session_id and timeout, and talks to
\* the same remote service.
VARIABLES
    peer_session,     \* the Id inside its self._session
    peer_state,       \* its self._state
    peer_pc,          \* position of its caller inside connect(); "idle" between calls
    peer_elapsed      \* value the next iteration of its provisioning loop sees

\* The helper SqlWrapper2 that connect() installs in the remote runtime
\* (the SQLPROXY text), and one call of its execute().
VARIABLES
    sql,              \* the string passed to execute(), as a sequence of characters
    proxyOut          \* what the call ran, printed and returned (NotRun before it)

\* GlueAdapter.get_columns_in_relation (impl.py), and one call of it.
VARIABLES
    describe,         \* what the cursor does with the describe statement
    columnsOut        \* what the call gave its caller (NotRun before it)

\* The full envelope SqlWrapper2.execute builds from a DataFrame.
VARIABLES
    frame,            \* the DataFrame spark.sql(sql) returned: schema and collected rows
    envelopeOut       \* the envelope built from it (NotRun before)

\* GlueAdapter.hudi_merge_table (impl.py), and one call of it.
VARIABLES
    merge,            \* the catalog, the arguments and the request of the call
    mergeOut          \* what the call did (NotRun before it)

credVars   == <<cred_session_id, timeout>>
pollVars   == <<elapsed, exact, pollReads>>
cancelVars == <<stmts, cancelled>>
readVars   == <<_state, lastRead, calls, failedLookups, observedReady>>
peerVars   == <<peer_session, peer_state, peer_pc, peer_elapsed>>
proxyVars  == <<sql, proxyOut>>
adapterVars == <<describe, columnsOut>>
envelopeVars == <<frame, envelopeOut>>
mergeVars  == <<merge, mergeOut>>
\* what no method of the first connection assigns
restVars   == <<peerVars, proxyVars, adapterVars, envelopeVars, mergeVars>>
\* what no method of another connection assigns
connVars   == <<_session, pc, pollVars, cancelVars, readVars, result, prev, atCall,
               proxyVars, adapterVars, envelopeVars, mergeVars>>
\* the connections, their credentials and the remote session service
sessionVars == <<credVars, remote, nextId, _session, pc, pollVars, cancelVars,
                 readVars, result, prev, atCall, peerVars>>

vars == <<cred_session_id, timeout, _session, _state, remote, nextId, pc,
          elapsed, exact, pollReads, stmts, cancelled, calls, failedLookups,
          lastRead, result, prev, atCall, observedReady,
          peer_session, peer_state, peer_pc, peer_elapsed,
          sql, proxyOut, describe, columnsOut, frame, envelopeOut, merge, mergeOut>>

\* ----------------------------------------------------------------- helpers
NoResult  == [op |-> "none", kind |-> "none", id |-> NoId]
NoRead    == [cached |-> NoState, id |-> NoId, gets |-> 0, resp |-> NoState,
              ret |-> NoState, new |-> NoState, raised |-> FALSE]
NoAtCall  == [cred |-> NoId, session |-> NoId, state |-> NoState, closed |-> FALSE]
NotRun    == [called |-> FALSE]

Call(c, i) == [call |-> c, id |-> i]

\* connection.py 96-100: the session_id property
session_id == _session

\* What client.get_session(Id=id) can do: answer with the session's status,
\* or raise (unknown id, id None, throttling, network).
GetSessionResponses(id) ==
    IF id = NoId \/ remote[id] = ABSENT THEN {ERROR} ELSE {remote[id], ERROR}

StateProperty_NoCache(cached, resp) ==
    IF resp = ERROR
    THEN [ret |-> CLOSED, new |-> CLOSED, gets |-> 1, raised |-> FALSE]
    ELSE [ret |-> resp, new |-> resp, gets |-> 1, raised |-> FALSE]

StateProperty_OnlyReadyCached(cached, resp) ==
    IF cached = READY
    THEN [ret |-> cached, new |-> cached, gets |-> 0, raised |-> FALSE]
    ELSE IF resp = ERROR
         THEN [ret |-> CLOSED, new |-> CLOSED, gets |-> 1, raised |-> FALSE]
         ELSE [ret |-> resp, new |-> resp, gets |-> 1, raised |-> FALSE]

StateProperty_Propagates(cached, resp) ==
    IF cached \in {FAILED, READY}
    THEN [ret |-> cached, new |-> cached, gets |-> 0, raised |-> FALSE]
    ELSE IF resp = ERROR
         THEN [ret |-> NoState, new |-> cached, gets |-> 1, raised |-> TRUE]
         ELSE [ret |-> resp, new |-> resp, gets |-> 1, raised |-> FALSE]

\* connection.py 139-149: the `state` property, given the cached value and
\* what get_session would answer: the value returned, the value cached
\* afterwards, the number of get_session calls issued, whether it raised.
StateProperty(cached, resp) ==
    IF cached \in {FAILED, READY}
    THEN [ret |-> cached, new |-> cached, gets |-> 0, raised |-> FALSE]
    ELSE IF resp = ERROR
         THEN [ret |-> CLOSED, new |-> CLOSED, gets |-> 1, raised |-> FALSE]
         ELSE [ret |-> resp, new |-> resp, gets |-> 1, raised |-> FALSE]

\* connection.py 139-149: one evaluation of self.state against the answer
\* resp, and the trace it leaves (cs, fl: the operation's calls and failed
\* lookups so far)
ReadStateProperty(resp, cs, fl) ==
    LET r == StateProperty(_state, resp) IN
    /\ _state' = r.new
    /\ lastRead' = [cached |-> _state, id |-> session_id, gets |-> r.gets,
                    resp |-> IF r.gets = 0 THEN NoState ELSE resp,
                    ret |-> r.ret, new |-> r.new, raised |-> r.raised]
    /\ calls' = IF r.gets = 0 THEN cs ELSE Append(cs, Call("get_session", session_id))
    /\ failedLookups' = IF r.gets = 1 /\ resp = ERROR
                        THEN fl \cup {session_id} ELSE fl
    /\ observedReady' = IF r.gets = 1 /\ resp = READY
                        THEN observedReady \cup {session_id} ELSE observedReady

\* an operation returns or raises
Finish(op, kind, id) ==
    /\ pc' = "idle"
    /\ result' = [op |-> op, kind |-> kind, id |-> id]

\* an operation is called
Begin ==
    /\ pc = "idle"
    /\ prev' = result
    /\ atCall' = [cred |-> cred_session_id, session |-> _session, state |-> _state,
                  closed |-> cred_session_id # NoId
                             /\ remote[cred_session_id] \in {CLOSED, ABSENT}]
    /\ elapsed' = 0
    /\ exact' = TRUE
    /\ pollReads' = 0

\* -------------------------------------------------------------------- Init
\* no call of SqlWrapper2.execute / get_columns_in_relation is considered
ProxyNotCalled ==
    /\ sql = <<>>
    /\ proxyOut = NotRun

EnvelopeNotCalled ==
    /\ frame = [schema |-> <<>>, rows |-> <<>>]
    /\ envelopeOut = NotRun

MergeNotCalled ==
    /\ merge = [exists |-> FALSE, lookup |-> "EntityNotFoundException",
                partition_key |-> "None", rows |-> 0, resolves |-> FALSE]
    /\ mergeOut = NotRun

AdapterNotCalled ==
    /\ describe = [rows |-> <<>>, fail |-> "none", yielded |-> 0]
    /\ columnsOut = NotRun

\* GlueConnection.__init__ (connection.py 22-26) for the second connection
PeerNotConnected ==
    /\ peer_session = NoId
    /\ peer_state = NoState
    /\ peer_pc = "idle"
    /\ peer_elapsed = 0

\* GlueConnection.__init__ (connection.py 22-26) on credentials that carry
\* no session id or the id of a session created earlier
ConnectionInit ==
    /\ cred_session_id \in {NoId, 1}
    /\ timeout \in 0..MaxTimeout
    /\ _session = NoId
    /\ _state = NoState
    /\ remote \in [SessionIds -> SessionStates \cup {ABSENT}]
    /\ \A i \in SessionIds : i > 1 => remote[i] = ABSENT
    /\ cred_session_id = NoId => remote[1] = ABSENT
    /\ nextId = IF cred_session_id = NoId THEN 1 ELSE 2
    /\ pc = "idle"
    /\ elapsed = 0
    /\ exact = TRUE
    /\ pollReads = 0
    /\ stmts = <<>>
    /\ cancelled = <<>>
    /\ calls = <<>>
    /\ failedLookups = {}
    /\ lastRead = NoRead
    /\ result = NoResult
    /\ prev = NoResult
    /\ atCall = NoAtCall
    /\ observedReady = {}
    /\ PeerNotConnected

Init ==
    /\ ConnectionInit
    /\ ProxyNotCalled
    /\ AdapterNotCalled
    /\ EnvelopeNotCalled
    /\ MergeNotCalled

\* ------------------------------------------------------------- environment
\* The remote service moves a session on its own: provisioning ends in READY
\* or FAILED, and any live session may be stopped, deleted or time out.
RemoteNext(s) ==
    CASE s = PROVISIONING -> {READY, FAILED, CLOSED}
      [] s = READY        -> {CLOSED}
      [] s = FAILED       -> {CLOSED}
      [] OTHER            -> {}

RemoteStep ==
    /\ \E i \in SessionIds : \E s \in RemoteNext(remote[i]) :
          remote' = [remote EXCEPT ![i] = s]
    /\ UNCHANGED <<credVars, _session, nextId, pc, pollVars, cancelVars,
                   readVars, result, prev, atCall>>
    /\ UNCHANGED restVars

\* ----------------------------------------------------------------- connect
\* connection.py 28-36: entry of connect() up to the first read of self.state
Connect_Begin ==
    /\ Begin
    /\ calls' = <<>>
    /\ failedLookups' = {}
    /\ lastRead' = NoRead
    /\ IF cred_session_id = NoId
       THEN /\ pc' = "create"
            /\ UNCHANGED _session
       ELSE /\ _session' = cred_session_id
            /\ pc' = "log_state"
    /\ UNCHANGED <<credVars, _state, remote, nextId, cancelVars, result, observedReady>>
    /\ UNCHANGED restVars

\* connection.py 37: logger.debug("Existing session with status : " + self.state)
Connect_LogState ==
    /\ pc = "log_state"
    /\ \E resp \in GetSessionResponses(session_id) :
         ReadStateProperty(resp, calls, failedLookups)
    /\ pc' = "check_closed"
    /\ UNCHANGED <<credVars, _session, remote, nextId, pollVars, cancelVars,
                   result, prev, atCall>>
    /\ UNCHANGED restVars

NeedsNewSession_Inverted(st) == st # CLOSED

\* connection.py 38: the state on which the reuse path starts a new session
NeedsNewSession(st) == st = CLOSED

\* connection.py 38-39: if self.state == GlueSessionState.CLOSED: _start_session()
Connect_CheckClosed ==
    /\ pc = "check_closed"
    /\ \E resp \in GetSessionResponses(session_id) :
         /\ ReadStateProperty(resp, calls, failedLookups)
         /\ pc' = IF NeedsNewSession(StateProperty(_state, resp).ret)
                  THEN "create" ELSE "init_proxy"
    /\ UNCHANGED <<credVars, _session, remote, nextId, pollVars, cancelVars,
                   result, prev, atCall>>
    /\ UNCHANGED restVars

StateAfterCreateFailure_Keeps(st) == st

StateAfterCreateFailure_Closed(st) == CLOSED

\* connection.py 77-78: the cached state after create_session raised ClientError
StateAfterCreateFailure(st) == FAILED

\* connection.py 45-79: _start_session up to the poll loop: create_session
\* answers with a new session (its Id is noted in self._session) or rejects
StartSession_Create ==
    /\ pc = "create"
    /\ \/ /\ nextId <= MaxSessions
          /\ remote' = [remote EXCEPT ![nextId] = PROVISIONING]
          /\ _session' = nextId
          /\ nextId' = nextId + 1
          /\ calls' = Append(calls, Call("create_session", nextId))
          /\ pc' = "poll"
          /\ UNCHANGED <<_state, result>>
       \/ /\ calls' = Append(calls, Call("create_session", NoId))
          /\ _state' = StateAfterCreateFailure(_state)
          /\ Finish("connect", "FailedToConnectException", NoId)
          /\ UNCHANGED <<remote, _session, nextId>>
    /\ UNCHANGED <<credVars, pollVars, cancelVars, failedLookups, lastRead,
                   prev, atCall, observedReady>>
    /\ UNCHANGED restVars

DeadlinePassed_Late(e, t) == e > t + 1

DeadlinePassed_Never(e, t) == FALSE

\* connection.py 84: if elapsed > timeout: raise TimeoutError
DeadlinePassed(e, t) == e > t

\* connection.py 81-85: one iteration of `for elapsed in wait(1)`: read
\* self.state, return on READY, raise past the deadline, else sleep d seconds
StartSession_Poll ==
    /\ pc = "poll"
    /\ \E resp \in GetSessionResponses(session_id) : \E d \in 1..MaxSlip :
         /\ ReadStateProperty(resp, calls, failedLookups)
         /\ IF StateProperty(_state, resp).ret = READY
            THEN /\ pc' = "init_proxy"
                 /\ elapsed' = 0 /\ exact' = TRUE /\ pollReads' = 0
                 /\ UNCHANGED result
            ELSE IF DeadlinePassed(elapsed, timeout)
            THEN /\ Finish("connect", "TimeoutError", NoId)
                 /\ pollReads' = pollReads + 1
                 /\ UNCHANGED <<elapsed, exact>>
            ELSE /\ elapsed + d <= MaxElapsed
                 /\ elapsed' = elapsed + d
                 /\ exact' = (exact /\ d = 1)
                 /\ pollReads' = pollReads + 1
                 /\ UNCHANGED <<pc, result>>
    /\ UNCHANGED <<credVars, _session, remote, nextId, cancelVars, prev, atCall>>
    /\ UNCHANGED restVars

\* What GlueStatement(...).execute() can do: a statement runs to AVAILABLE
\* only in a session that is remotely READY; it can fail in any state.
StatementOutcomes(id) ==
    IF id # NoId /\ remote[id] = READY THEN {"ok", ERROR} ELSE {ERROR}

\* connection.py 87-91: _init_session, the SQLPROXY statement
InitStatements_Swapped == <<"statement_use", "statement_proxy">>

\* connection.py 87-94: the statements _init_session() executes, in order:
\* the SQLPROXY helper, then spark.sql('use <database>')
InitStatements == <<"statement_proxy", "statement_use">>

InitSession_Proxy ==
    /\ pc = "init_proxy"
    /\ \E out \in StatementOutcomes(session_id) :
         /\ calls' = Append(calls, Call(InitStatements[1], session_id))
         /\ IF out = "ok"
            THEN pc' = "init_use" /\ UNCHANGED result
            ELSE Finish("connect", "StatementError", NoId)
    /\ UNCHANGED <<credVars, _session, _state, remote, nextId, pollVars,
                   cancelVars, failedLookups, lastRead, prev, atCall, observedReady>>
    /\ UNCHANGED restVars

\* credentials.session_id written before the statement's outcome is known
InitSession_UseDb_WritesFirst ==
    /\ pc = "init_use"
    /\ cred_session_id' = session_id
    /\ \E out \in StatementOutcomes(session_id) :
         /\ calls' = Append(calls, Call(InitStatements[2], session_id))
         /\ IF out = "ok"
            THEN Finish("connect", "ok", session_id)
            ELSE Finish("connect", "StatementError", NoId)
    /\ UNCHANGED <<timeout, _session, _state, remote, nextId, pollVars, cancelVars,
                   failedLookups, lastRead, prev, atCall, observedReady>>
    /\ UNCHANGED restVars

\* connection.py 92-94 and 42-43: the `use <database>` statement, then
\* credentials.session_id = self.session_id; return self.session_id
InitSession_UseDb ==
    /\ pc = "init_use"
    /\ \E out \in StatementOutcomes(session_id) :
         /\ calls' = Append(calls, Call(InitStatements[2], session_id))
         /\ IF out = "ok"
            THEN /\ cred_session_id' = session_id
                 /\ Finish("connect", "ok", session_id)
            ELSE /\ Finish("connect", "StatementError", NoId)
                 /\ UNCHANGED cred_session_id
    /\ UNCHANGED <<timeout, _session, _state, remote, nextId, pollVars,
                   cancelVars, failedLookups, lastRead, prev, atCall, observedReady>>
    /\ UNCHANGED restVars

\* ------------------------------------------------------- the state property
\* connection.py 139-149: a caller reads connection.state between operations
ReadState ==
    /\ Begin
    /\ \E resp \in GetSessionResponses(session_id) :
         /\ ReadStateProperty(resp, <<>>, {})
         /\ Finish("state", IF StateProperty(_state, resp).raised THEN ERROR ELSE "ok",
                   NoId)
    /\ UNCHANGED <<credVars, _session, remote, nextId, cancelVars>>
    /\ UNCHANGED restVars

\* ------------------------------------------------------------------ cancel
\* What a statement call can do on session id: the service answers only for
\* a session it still has, and any call can raise.
SessionAnswers(id) == id # NoId /\ remote[id] \notin {ABSENT, CLOSED}

\* connection.py 115-117: cancel() lists the statements of the session.  The
\* list answered holds at most MaxStmts statements; the model learns the
\* state of each when the loop takes it.
Cancel_List ==
    /\ Begin
    /\ calls' = <<Call("get_statements", session_id)>>
    /\ failedLookups' = {}
    /\ lastRead' = NoRead
    /\ \/ /\ SessionAnswers(session_id)
          /\ pc' = "cancel_loop"
          /\ UNCHANGED result
       \/ Finish("cancel", ERROR, NoId)
    /\ UNCHANGED <<credVars, _session, _state, remote, nextId, cancelVars,
                   observedReady>>
    /\ UNCHANGED restVars

ShouldCancel_Pending(st) == st \in {"RUNNING", "WAITING"}

\* connection.py 119: if statement["State"] in ["RUNNING"]
ShouldCancel(st) == st \in {"RUNNING"}

\* connection.py 118-120 and 108-113: one iteration of the loop of cancel()
\* on the next statement of the list, listed in state st: a statement to
\* cancel gets a cancel_statement call, which may raise and end cancel()
Cancel_Iter ==
    /\ pc = "cancel_loop"
    /\ Len(stmts) < MaxStmts
    /\ \E st \in StmtStates :
         IF ShouldCancel(st)
         THEN /\ calls' = Append(calls, Call("cancel_statement", session_id))
              /\ \/ /\ SessionAnswers(session_id)
                    /\ stmts' = Append(stmts, st)
                    /\ cancelled' = Append(cancelled, Len(stmts) + 1)
                    /\ UNCHANGED <<pc, result>>
                 \/ /\ Finish("cancel", ERROR, NoId)
                    /\ stmts' = <<>>
                    /\ cancelled' = <<>>
         ELSE /\ stmts' = Append(stmts, st)
              /\ UNCHANGED <<pc, result, cancelled, calls>>
    /\ UNCHANGED <<credVars, _session, _state, remote, nextId, pollVars,
                   failedLookups, lastRead, prev, atCall, observedReady>>
    /\ UNCHANGED restVars

\* connection.py 118: the list is exhausted, cancel() returns
Cancel_Return ==
    /\ pc = "cancel_loop"
    /\ Finish("cancel", "ok", NoId)
    /\ stmts' = <<>>
    /\ cancelled' = <<>>
    /\ UNCHANGED <<credVars, _session, _state, remote, nextId, pollVars,
                   calls, failedLookups, lastRead, prev, atCall, observedReady>>
    /\ UNCHANGED restVars

\* ----------------------------------------------------------- close_session
\* What client.delete_session(Id=id) can do: a live session is deleted; for
\* a session that is already gone the service may answer or reject the call.
DeleteSessionResponses(id) ==
    IF remote[id] \in {ABSENT, CLOSED} THEN {"ok", ERROR} ELSE {"ok"}

\* connection.py 136: if self.credentials.session_id
HasSessionToClose(id) == id # NoId

\* connection.py 135-137: close_session()
CloseSession ==
    /\ Begin
    /\ failedLookups' = {}
    /\ lastRead' = NoRead
    /\ IF HasSessionToClose(cred_session_id)
       THEN \E out \in DeleteSessionResponses(cred_session_id) :
            /\ calls' = <<Call("delete_session", cred_session_id)>>
            /\ remote' = IF out = "ok" /\ remote[cred_session_id] # ABSENT
                         THEN [remote EXCEPT ![cred_session_id] = CLOSED]
                         ELSE remote
            /\ Finish("close_session", out, NoId)
       ELSE /\ calls' = <<>>
            /\ UNCHANGED remote
            /\ Finish("close_session", "ok", NoId)
    /\ UNCHANGED <<credVars, _session, _state, nextId, cancelVars, observedReady>>
    /\ UNCHANGED restVars

\* connection.py 108-113: cancel_statement(statement_id) called by the caller
\* itself; the statement id is passed through to the remote call untouched
CancelStatement ==
    /\ Begin
    /\ calls' = <<Call("cancel_statement", session_id)>>
    /\ failedLookups' = {}
    /\ lastRead' = NoRead
    /\ \/ /\ SessionAnswers(session_id)
          /\ Finish("cancel_statement", "ok", NoId)
       \/ Finish("cancel_statement", ERROR, NoId)
    /\ UNCHANGED <<credVars, _session, _state, remote, nextId, cancelVars, observedReady>>
    /\ UNCHANGED restVars

\* close() as if it were close_session()
Close_DeletesSession ==
    /\ Begin
    /\ failedLookups' = {}
    /\ lastRead' = NoRead
    /\ IF HasSessionToClose(cred_session_id)
       THEN /\ calls' = <<Call("delete_session", cred_session_id)>>
            /\ remote' = IF remote[cred_session_id] # ABSENT
                         THEN [remote EXCEPT ![cred_session_id] = CLOSED]
                         ELSE remote
       ELSE /\ calls' = <<>>
            /\ UNCHANGED remote
    /\ Finish("close", "ok", NoId)
    /\ UNCHANGED <<credVars, _session, _state, nextId, cancelVars, observedReady>>
    /\ UNCHANGED restVars

\* connection.py 122-124: close() only logs
Close ==
    /\ Begin
    /\ calls' = <<>>
    /\ failedLookups' = {}
    /\ lastRead' = NoRead
    /\ Finish("close", "ok", NoId)
    /\ UNCHANGED <<credVars, _session, _state, remote, nextId, cancelVars, observedReady>>
    /\ UNCHANGED restVars

\* connection.py 125-127: rollback() is a static method that only logs
Rollback ==
    /\ Begin
    /\ calls' = <<>>
    /\ failedLookups' = {}
    /\ lastRead' = NoRead
    /\ Finish("rollback", "ok", NoId)
    /\ UNCHANGED <<credVars, _session, _state, remote, nextId, cancelVars, observedReady>>
    /\ UNCHANGED restVars

Next ==
    \/ RemoteStep
    \/ Connect_Begin
    \/ Connect_LogState
    \/ Connect_CheckClosed
    \/ StartSession_Create
    \/ StartSession_Poll
    \/ InitSession_Proxy
    \/ InitSession_UseDb
    \/ ReadState
    \/ Cancel_List
    \/ Cancel_Iter
    \/ Cancel_Return
    \/ CancelStatement
    \/ CloseSession
    \/ Close
    \/ Rollback

Spec == Init /\ [][Next]_vars

\* A caller that never calls cancel() (which changes nothing of the
\* connection).  connect() is a blocking call of one thread: an iteration of
\* its provisioning loop that can run eventually runs.
NextNoCancel ==
    \/ RemoteStep
    \/ Connect_Begin
    \/ Connect_LogState
    \/ Connect_CheckClosed
    \/ StartSession_Create
    \/ StartSession_Poll
    \/ InitSession_Proxy
    \/ InitSession_UseDb
    \/ ReadState
    \/ CloseSession

LiveSpec == Init /\ [][NextNoCancel]_vars /\ WF_vars(StartSession_Poll)

\* A caller that manages the session only: connect(), reads of `state`,
\* close_session(), close() and rollback().  The statement operations
\* cancel() and cancel_statement() assign nothing of the connection.
NextLifecycle ==
    \/ RemoteStep
    \/ Connect_Begin
    \/ Connect_LogState
    \/ Connect_CheckClosed
    \/ StartSession_Create
    \/ StartSession_Poll
    \/ InitSession_Proxy
    \/ InitSession_UseDb
    \/ ReadState
    \/ CloseSession
    \/ Close
    \/ Rollback

LifecycleSpec == Init /\ [][NextLifecycle]_vars

\* A caller of the operations that address statements: connect() (whose
\* initialisation submits two), cancel(), cancel_statement(), and
\* close_session() to end the session they are addressed to.
NextStatements ==
    \/ RemoteStep
    \/ Connect_Begin
    \/ Connect_LogState
    \/ Connect_CheckClosed
    \/ StartSession_Create
    \/ StartSession_Poll
    \/ InitSession_Proxy
    \/ InitSession_UseDb
    \/ Cancel_List
    \/ Cancel_Iter
    \/ Cancel_Return
    \/ CancelStatement
    \/ CloseSession

StatementSpec == Init /\ [][NextStatements]_vars

\* A caller that connects and cancels what runs: connect() and cancel().
NextCancel ==
    \/ RemoteStep
    \/ Connect_Begin
    \/ Connect_LogState
    \/ Connect_CheckClosed
    \/ StartSession_Create
    \/ StartSession_Poll
    \/ InitSession_Proxy
    \/ InitSession_UseDb
    \/ Cancel_List
    \/ Cancel_Iter
    \/ Cancel_Return

CancelSpec == Init /\ [][NextCancel]_vars

\* ---------------------------------------------- connect() of the second connection
\* connection.py 28-36
Peer_Connect_Begin ==
    /\ peer_pc = "idle"
    /\ peer_elapsed' = 0
    /\ IF cred_session_id = NoId
       THEN /\ peer_pc' = "create"
            /\ UNCHANGED peer_session
       ELSE /\ peer_session' = cred_session_id
            /\ peer_pc' = "log_state"
    /\ UNCHANGED <<credVars, remote, nextId, peer_state, connVars>>

\* connection.py 37
Peer_Connect_LogState ==
    /\ peer_pc = "log_state"
    /\ \E resp \in GetSessionResponses(peer_session) :
         peer_state' = StateProperty(peer_state, resp).new
    /\ peer_pc' = "check_closed"
    /\ UNCHANGED <<credVars, remote, nextId, peer_session, peer_elapsed, connVars>>

\* connection.py 38-39
Peer_Connect_CheckClosed ==
    /\ peer_pc = "check_closed"
    /\ \E resp \in GetSessionResponses(peer_session) :
         /\ peer_state' = StateProperty(peer_state, resp).new
         /\ peer_pc' = IF NeedsNewSession(StateProperty(peer_state, resp).ret)
                       THEN "create" ELSE "init_proxy"
    /\ UNCHANGED <<credVars, remote, nextId, peer_session, peer_elapsed, connVars>>

\* connection.py 45-79
Peer_StartSession_Create ==
    /\ peer_pc = "create"
    /\ \/ /\ nextId <= MaxSessions
          /\ remote' = [remote EXCEPT ![nextId] = PROVISIONING]
          /\ peer_session' = nextId
          /\ nextId' = nextId + 1
          /\ peer_pc' = "poll"
          /\ UNCHANGED peer_state
       \/ /\ peer_state' = StateAfterCreateFailure(peer_state)
          /\ peer_pc' = "idle"
          /\ UNCHANGED <<remote, peer_session, nextId>>
    /\ UNCHANGED <<credVars, peer_elapsed, connVars>>

\* connection.py 81-85
Peer_StartSession_Poll ==
    /\ peer_pc = "poll"
    /\ \E resp \in GetSessionResponses(peer_session) : \E d \in 1..MaxSlip :
         /\ peer_state' = StateProperty(peer_state, resp).new
         /\ IF StateProperty(peer_state, resp).ret = READY
            THEN /\ peer_pc' = "init_proxy"
                 /\ peer_elapsed' = 0
            ELSE IF DeadlinePassed(peer_elapsed, timeout)
            THEN /\ peer_pc' = "idle"
                 /\ peer_elapsed' = 0
            ELSE /\ peer_elapsed + d <= MaxElapsed
                 /\ peer_elapsed' = peer_elapsed + d
                 /\ UNCHANGED peer_pc
    /\ UNCHANGED <<credVars, remote, nextId, peer_session, connVars>>

\* connection.py 87-91
Peer_InitSession_Proxy ==
    /\ peer_pc = "init_proxy"
    /\ \E out \in StatementOutcomes(peer_session) :
         peer_pc' = IF out = "ok" THEN "init_use" ELSE "idle"
    /\ UNCHANGED <<credVars, remote, nextId, peer_session, peer_state, peer_elapsed, connVars>>

\* connection.py 92-94 and 42-43
Peer_InitSession_UseDb ==
    /\ peer_pc = "init_use"
    /\ \E out \in StatementOutcomes(peer_session) :
         cred_session_id' = IF out = "ok" THEN peer_session ELSE cred_session_id
    /\ peer_pc' = "idle"
    /\ UNCHANGED <<timeout, remote, nextId, peer_session, peer_state, peer_elapsed, connVars>>

\* Two connections of one process that share the credentials object, each
\* calling connect() from its own thread; their steps interleave.
NextPeers ==
    \/ RemoteStep
    \/ Connect_Begin
    \/ Connect_LogState
    \/ Connect_CheckClosed
    \/ StartSession_Create
    \/ StartSession_Poll
    \/ InitSession_Proxy
    \/ InitSession_UseDb
    \/ Peer_Connect_Begin
    \/ Peer_Connect_LogState
    \/ Peer_Connect_CheckClosed
    \/ Peer_StartSession_Create
    \/ Peer_StartSession_Poll
    \/ Peer_InitSession_Proxy
    \/ Peer_InitSession_UseDb

PeerSpec == Init /\ [][NextPeers]_vars

\* ------------------------------------------------- SqlWrapper2 (SQLPROXY)
\* A string is a sequence of characters.  A statement text is a non-empty
\* run of characters other than ";": one that starts with "s" is a query
\* whose DataFrame has columns, one that starts with "d" (DDL) has none.
SqlChars  == {"s", "d", ";"}
SqlInputs == UNION {[1..n -> SqlChars] : n \in 1..MaxSqlLen}

IsBatch(str) == \E i \in 1..Len(str) : str[i] = ";"

\* str.split(";")
RECURSIVE Split(_)
Split(str) ==
    IF ~IsBatch(str)
    THEN <<str>>
    ELSE LET k == CHOOSE i \in 1..Len(str) :
                     str[i] = ";" /\ \A j \in 1..(i - 1) : str[j] # ";"
         IN  <<SubSeq(str, 1, k - 1)>> \o Split(SubSeq(str, k + 1, Len(str)))

\* spark.sql(q).schema.fields is not empty
HasColumns(q) == q[1] = "s"

NullEnvelope(q) == [envelope |-> "null-schema", of |-> q]
RowsEnvelope(q) == [envelope |-> "rows", of |-> q]
NoReturn        == [envelope |-> "none", of |-> <<>>]

\* connection.py 171-187: execute() of a string without ";": what it ran,
\* printed and returned.  With output set, a DataFrame without columns
\* prints the null-schema envelope and control goes on to line 177.
ExecuteOne(q, output) ==
    LET early == IF HasColumns(q) \/ ~output THEN <<>> ELSE <<NullEnvelope(q)>>
    IN  IF ~HasColumns(q) /\ ~output
        THEN [ran |-> <<q>>, printed |-> <<>>, ret |-> NullEnvelope(q)]
        ELSE IF output
        THEN [ran |-> <<q>>, printed |-> Append(early, RowsEnvelope(q)), ret |-> NoReturn]
        ELSE [ran |-> <<q>>, printed |-> <<>>, ret |-> RowsEnvelope(q)]

\* connection.py 165: if q==queries[-1]
IsLastQuery(queries, i) == queries[i] = queries[Len(queries)]

\* connection.py 163-168: the loop over queries, from position i on
RECURSIVE ExecuteQueries(_, _, _)
ExecuteQueries(queries, i, acc) ==
    IF i > Len(queries)
    THEN acc
    ELSE IF Len(queries[i]) = 0
    THEN ExecuteQueries(queries, i + 1, acc)
    ELSE LET last == IsLastQuery(queries, i)
             r    == ExecuteOne(queries[i], last)
         IN  ExecuteQueries(queries, i + 1,
                 [ran     |-> acc.ran \o r.ran,
                  printed |-> acc.printed \o r.printed,
                  ret     |-> IF last THEN r.ret ELSE acc.ret])

\* connection.py 159-187: SqlWrapper2.execute(sql, output)
Execute(str, output) ==
    IF IsBatch(str)
    THEN ExecuteQueries(Split(str), 1, [ran |-> <<>>, printed |-> <<>>, ret |-> NoReturn])
    ELSE ExecuteOne(str, output)

ProxyInit ==
    /\ ConnectionInit
    /\ cred_session_id = NoId
    /\ timeout = 0
    /\ sql \in SqlInputs
    /\ proxyOut = NotRun
    /\ AdapterNotCalled
    /\ EnvelopeNotCalled
    /\ MergeNotCalled

\* one call SqlWrapper2.execute(sql) or SqlWrapper2.execute(sql, output)
Proxy_Execute ==
    /\ proxyOut = NotRun
    /\ \E output \in BOOLEAN :
         LET r == Execute(sql, output)
         IN  proxyOut' = [called |-> TRUE, output |-> output, ran |-> r.ran,
                          printed |-> r.printed, ret |-> r.ret]
    /\ UNCHANGED <<sessionVars, sql, adapterVars, envelopeVars, mergeVars>>

ProxyNext ==
    \/ Proxy_Execute

ProxySpec == ProxyInit /\ [][ProxyNext]_vars

\* ------------------------------ GlueAdapter.get_columns_in_relation (impl.py)
\* impl.py 38-44
HUDI_METADATA_COLUMNS ==
    {"_hoodie_commit_time", "_hoodie_commit_seqno", "_hoodie_record_key",
     "_hoodie_partition_path", "_hoodie_file_name"}

ColumnNames == {"id", "name", "_hoodie_commit_time"}
DescribeRows == UNION {[1..n -> ColumnNames] : n \in 0..MaxColumns}

\* What the cursor does with `describe <schema>.<identifier>`: rows are the
\* column names the statement yields; fail says whether cursor.execute
\* raises ("execute"), the iteration over cursor.fetchall() raises
\* ("fetch") or neither ("none"); yielded is the number of rows the loop
\* receives before that.
DescribeOutcomes(rows) ==
    {[rows |-> rows, fail |-> "none", yielded |-> Len(rows)],
     [rows |-> rows, fail |-> "execute", yielded |-> 0]}
    \cup {[rows |-> rows, fail |-> "fetch", yielded |-> k] : k \in 0..Len(rows)}

DescribeInputs == UNION {DescribeOutcomes(rows) : rows \in DescribeRows}

IsDataColumn(name) == name \notin HUDI_METADATA_COLUMNS

\* impl.py 198-220: the rows received are appended to columns; `except
\* Exception` (211-213) only logs whatever execute or the iteration raised;
\* the hudi metadata columns are stripped and the list is returned
GetColumnsInRelation(d) ==
    [called  |-> TRUE,
     raised  |-> FALSE,
     columns |-> SelectSeq(SubSeq(d.rows, 1, d.yielded), IsDataColumn)]

AdapterInit ==
    /\ ConnectionInit
    /\ cred_session_id = NoId
    /\ timeout = 0
    /\ ProxyNotCalled
    /\ EnvelopeNotCalled
    /\ MergeNotCalled
    /\ describe \in DescribeInputs
    /\ columnsOut = NotRun

\* one call adapter.get_columns_in_relation(relation)
GetColumnsInRelation_Call ==
    /\ columnsOut = NotRun
    /\ columnsOut' = GetColumnsInRelation(describe)
    /\ UNCHANGED <<sessionVars, proxyVars, describe, envelopeVars, mergeVars>>

AdapterNext ==
    \/ GetColumnsInRelation_Call

AdapterSpec == AdapterInit /\ [][AdapterNext]_vars

\* ------------------------------ SqlWrapper2: the full envelope (SQLPROXY)
\* A DataFrame: the names of df.schema in order (spark.sql allows the same
\* name twice, as in `select 1 as a, 2 as a`) and the rows df.rdd.collect()
\* returns, each a sequence of values in schema order.
FieldNames  == {"a", "b"}
FieldValues == {1, 2}
Schemas     == UNION {[1..n -> FieldNames] : n \in 0..MaxFields}
RowsOf(schema) ==
    UNION {[1..m -> [1..Len(schema) -> FieldValues]] : m \in 0..MaxRows}
Frames == UNION {{[schema |-> sc, rows |-> rs] : rs \in RowsOf(sc)} : sc \in Schemas}

\* record[name] of a pyspark Row: the value at the first field of that name
RowGet(schema, record, name) ==
    record[CHOOSE i \in 1..Len(schema) :
               schema[i] = name /\ \A j \in 1..(i - 1) : schema[j] # name]

\* d[key] = value on a python dict, kept as the sequence of its items in
\* insertion order: a key already present keeps its place
DictSet(d, key, value) ==
    IF \E i \in 1..Len(d) : d[i].key = key
    THEN [i \in 1..Len(d) |-> IF d[i].key = key THEN [key |-> key, value |-> value] ELSE d[i]]
    ELSE Append(d, [key |-> key, value |-> value])

\* connection.py 180-182: d = {}; for f in df.schema: d[f.name] = record[f.name]
RECURSIVE RecordData(_, _, _, _)
RecordData(schema, record, i, d) ==
    IF i > Len(schema)
    THEN d
    ELSE RecordData(schema, record, i + 1,
                    DictSet(d, schema[i], RowGet(schema, record, schema[i])))

\* connection.py 177-187: the envelope built from df
FullEnvelope(df) ==
    [called      |-> TRUE,
     rowcount    |-> Len(df.rows),
     results     |-> [r \in 1..Len(df.rows) |-> RecordData(df.schema, df.rows[r], 1, <<>>)],
     description |-> df.schema]

EnvelopeInit ==
    /\ ConnectionInit
    /\ cred_session_id = NoId
    /\ timeout = 0
    /\ ProxyNotCalled
    /\ AdapterNotCalled
    /\ MergeNotCalled
    /\ frame \in Frames
    /\ envelopeOut = NotRun

\* lines 177-187 of one call of SqlWrapper2.execute
Proxy_BuildEnvelope ==
    /\ envelopeOut = NotRun
    /\ envelopeOut' = FullEnvelope(frame)
    /\ UNCHANGED <<sessionVars, proxyVars, adapterVars, frame, mergeVars>>

EnvelopeNext ==
    \/ Proxy_BuildEnvelope

EnvelopeSpec == EnvelopeInit /\ [][EnvelopeNext]_vars

\* ---------------------------------------- GlueAdapter.hudi_merge_table
\* What glueClient.get_table can do (impl.py 525): answer when the table is
\* in the catalog, raise ClientError EntityNotFoundException when it is not,
\* and in either case raise another ClientError (access denied, throttling)
\* or an error that is not a ClientError (no endpoint).
ClientErrorCodes == {"EntityNotFoundException", "AccessDeniedException", "ThrottlingException"}
GetTableResponses(exists) ==
    (IF exists THEN {"ok"} ELSE {"EntityNotFoundException"})
        \cup {"AccessDeniedException", "ThrottlingException", "EndpointConnectionError"}

\* the calls considered: the table is or is not in the catalog, get_table
\* answers, partition_key is None or a column, the request yields 0..MaxRows
\* rows, and the names the generated script uses without defining them
\* (partitionKey, the partition column) are or are not bound in the session
MergeInputs ==
    {[exists |-> e, lookup |-> l, partition_key |-> k, rows |-> n, resolves |-> b] :
        e \in BOOLEAN, l \in {"ok"} \cup ClientErrorCodes \cup {"EndpointConnectionError"},
        k \in {"None", "dt"}, n \in 0..MaxRows, b \in BOOLEAN}

\* impl.py 523-532: isTableExists after the try/except around get_table:
\* True when the call answered, False when it raised a ClientError, whatever
\* its code
IsTableExists(lookup) == lookup = "ok"

\* impl.py 548-563: the write of core_code
CoreCode(isTableExists) ==
    IF isTableExists
    THEN [operation |-> "upsert", mode |-> "Append"]
    ELSE [operation |-> "bulk_insert", mode |-> "Overwrite"]

NoWrite == [operation |-> "none", mode |-> "none"]

\* the script wrote nothing
NoRun == [written |-> NoWrite, partitioned |-> FALSE, error |-> "none"]

\* impl.py 541-563: what the generated script does in the session: nothing
\* for an empty request, else the write of core_code, partitioned when
\* partition_key is not None (a branch that raises NameError when the names
\* it uses are unbound)
ScriptRun(m, code) ==
    IF m.rows = 0
    THEN NoRun
    ELSE IF m.partition_key = "None"
    THEN [written |-> code, partitioned |-> FALSE, error |-> "none"]
    ELSE IF m.resolves
    THEN [written |-> code, partitioned |-> TRUE, error |-> "none"]
    ELSE [written |-> NoWrite, partitioned |-> FALSE, error |-> "NameError"]

\* impl.py 517-572: hudi_merge_table; an error of get_table that is not a
\* ClientError leaves the method before any code is generated
HudiMergeTable(m) ==
    IF m.lookup \notin {"ok"} \cup ClientErrorCodes
    THEN [called |-> TRUE, raised |-> m.lookup, isTableExists |-> FALSE,
          code |-> NoWrite, run |-> NoRun]
    ELSE LET code == CoreCode(IsTableExists(m.lookup))
         IN  [called |-> TRUE, raised |-> "none", isTableExists |-> IsTableExists(m.lookup),
              code |-> code, run |-> ScriptRun(m, code)]

HudiInit ==
    /\ ConnectionInit
    /\ cred_session_id = NoId
    /\ timeout = 0
    /\ ProxyNotCalled
    /\ AdapterNotCalled
    /\ EnvelopeNotCalled
    /\ merge \in {m \in MergeInputs : m.lookup \in GetTableResponses(m.exists)}
    /\ mergeOut = NotRun

HudiMergeTable_Call ==
    /\ mergeOut = NotRun
    /\ mergeOut' = HudiMergeTable(merge)
    /\ UNCHANGED <<sessionVars, proxyVars, adapterVars, envelopeVars, merge>>

HudiNext ==
    \/ HudiMergeTable_Call

HudiSpec == HudiInit /\ [][HudiNext]_vars

\* ------------------------------------------------------------------ claims
Done(op, kind) == pc = "idle" /\ result.op = op /\ result.kind = kind
InConnect      == pc # "idle" \/ result.op = "connect"
PrevConnectOk  == InConnect /\ prev.op = "connect" /\ prev.kind = "ok"
Issued(c)      == {i \in 1..Len(calls) : calls[i].call = c}
LookupFailed(id) == id \in failedLookups

\* C1: whenever connect() returns normally, some get_session call reported the
\* returned session id READY before the initialization statements were sent.
C1_ReturnedSessionObservedReady ==
    Done("connect", "ok") => result.id \in observedReady

C3_ClosedSessionIsReplaced ==
    (pc = "init_proxy" /\ atCall.closed)
        => /\ \E i \in Issued("get_session") : calls[i].id = atCall.cred
           /\ \E i \in Issued("create_session") : calls[i].id # NoId
           /\ session_id # atCall.cred

C5_PollLoopTerminates ==
    /\ [](pc = "poll" => elapsed <= timeout + MaxSlip)
    /\ [](Done("connect", "TimeoutError")
            => elapsed > timeout /\ result.id = NoId /\ cred_session_id = atCall.cred)
    /\ (pc = "poll") ~> (pc # "poll")

C5_Witness ==
    Done("connect", "TimeoutError") /\ pollReads >= 2 /\ observedReady = {}

\* C6 as stated: with a clock that advances one second per iteration and a
\* session that never becomes READY, the loop reads the state at most
\* timeout+1 times before it raises the timeout.
C6_AtMostTimeoutPlusOneReads ==
    (Done("connect", "TimeoutError") /\ exact) => pollReads <= timeout + 1

\* C6 amended: under the same conditions the loop reads the state at most
\* timeout+2 times (elapsed = 0, 1, ..., timeout+1) before it raises the timeout.
C6_AtMostTimeoutPlusTwoReads ==
    (Done("connect", "TimeoutError") /\ exact) => pollReads <= timeout + 2

C6_Witness ==
    Done("connect", "TimeoutError") /\ exact /\ timeout >= 1 /\ pollReads = timeout + 2

\* C7: a read of `state` with READY or FAILED cached returns the cached value
\* and calls nothing; with anything else cached it issues one get_session for
\* the current session id and caches and returns the status reported.
C7_StateCache ==
    lastRead # NoRead =>
        /\ lastRead.cached \in {READY, FAILED}
             => lastRead.gets = 0 /\ lastRead.ret = lastRead.cached
                /\ lastRead.new = lastRead.cached
        /\ lastRead.cached \notin {READY, FAILED}
             => /\ lastRead.gets = 1
                /\ \E i \in Issued("get_session") : calls[i].id = lastRead.id
                /\ lastRead.resp # ERROR
                     => lastRead.new = lastRead.resp /\ lastRead.ret = lastRead.resp

C7_Witness ==
    /\ lastRead.cached = READY /\ lastRead.gets = 0 /\ lastRead.ret = READY
    /\ lastRead.id # NoId /\ remote[lastRead.id] = CLOSED

\* C8: a read of `state` never raises; when get_session fails (also with no
\* session id set) CLOSED is cached and returned.
C8_StateNeverRaises ==
    /\ lastRead.raised = FALSE
    /\ (lastRead.gets = 1 /\ lastRead.resp = ERROR)
          => lastRead.ret = CLOSED /\ lastRead.new = CLOSED
    /\ (pc = "idle" /\ result.op = "state") => result.kind = "ok" /\ _state = lastRead.new

C8_Witness ==
    /\ Done("state", "ok") /\ lastRead.resp = ERROR /\ lastRead.id = NoId
    /\ _state = CLOSED

C10_CloseSessionIdempotent ==
    (pc = "idle" /\ result.op = "close_session") =>
        /\ atCall.cred = NoId => calls = <<>> /\ result.kind = "ok"
        /\ prev.op = "close_session" => result.kind = "ok"

\* C11: close() and rollback() return normally in every state, issue no
\* remote call and leave the session id, the cached state and
\* credentials.session_id as they were when called (so nothing they do can
\* end the remote session); delete_session is only ever issued by
\* close_session().
C11_CloseAndRollbackAreNoOps ==
    /\ (pc = "idle" /\ result.op \in {"close", "rollback"}) =>
          /\ result.kind = "ok"
          /\ calls = <<>>
          /\ _session = atCall.session
          /\ _state = atCall.state
          /\ cred_session_id = atCall.cred
    /\ Issued("delete_session") # {} => (pc = "idle" /\ result.op = "close_session")

\* close() was called on a connection whose connect() had just returned, and
\* the session it holds is still READY on the remote side
C11_Witness ==
    /\ Done("close", "ok")
    /\ prev.op = "connect" /\ prev.kind = "ok"
    /\ _session # NoId /\ _session = cred_session_id
    /\ remote[_session] = READY

\* the remote calls that address a statement of a session: the two
\* initialisation statements, get_statements and cancel_statement
StatementCalls == {"statement_proxy", "statement_use", "get_statements", "cancel_statement"}
IssuesStatementCall ==
    /\ calls' # calls
    /\ calls' # <<>>
    /\ calls'[Len(calls')].call \in StatementCalls

\* C12: every step that issues a statement operation (submit, list, cancel)
\* addresses it to a session id that is known and whose remote session is,
\* at that moment, neither CLOSED or deleted nor FAILED.
C12_StatementsOnlyToLiveSession ==
    [][IssuesStatementCall =>
          LET id == calls'[Len(calls')].id
          IN  /\ id # NoId
              /\ remote[id] \in {PROVISIONING, READY}]_vars

\* C13: between operations (after every operation, returned or raised) the
\* connection's session_id and credentials.session_id are never two
\* different non-empty ids.
C13_OneCurrentSessionId ==
    (pc = "idle" /\ session_id # NoId /\ cred_session_id # NoId)
        => session_id = cred_session_id

\* C14: when connect() has raised for a session-lifecycle reason (create
\* rejected, provisioning timeout, initialisation statement failed), the
\* session id and credentials.session_id are what they were before the call
\* and the cached state is what it was or FAILED.
C14_FailedConnectRestoresIds ==
    (pc = "idle" /\ result.op = "connect" /\ result.kind # "ok") =>
        /\ _session = atCall.session
        /\ cred_session_id = atCall.cred
        /\ _state \in {atCall.state, FAILED}

\* C15: two GlueConnection instances of one process, here constructed from
\* the same credentials object, never hold the same session id at the same
\* time, whatever the interleaving of their connect() calls.
C15_ConnectionsNeverShareSession ==
    session_id # NoId => peer_session # session_id

IsInitStatement(c) == c.call \in {"statement_proxy", "statement_use"}
\* the initialisation statements the connect() in progress / last finished
\* has submitted, in order
Submitted == SelectSeq(calls, IsInitStatement)
SessionNotReady == session_id = NoId \/ remote[session_id] # READY
ConnectRaisedStatementError ==
    /\ pc' = "idle"
    /\ result' = [op |-> "connect", kind |-> "StatementError", id |-> NoId]

\* C16: connect() submits at most the two initialisation statements, the
\* SQLPROXY helper first and the default-database statement second, both to
\* the connection's session; it returns only after both were submitted; a
\* connect() that raised for a statement returned no id; a first statement
\* that fails (the session is not READY when it is submitted) makes
\* connect() raise at that step with the second never submitted, and a
\* failing second statement makes it raise as well.
C16_InitSubmitsTwoInOrder ==
    /\ [](InConnect =>
            /\ \E n \in 0..2 : \A i \in 1..2 :
                 IF i <= n
                 THEN /\ Len(Submitted) >= i
                      /\ Submitted[i] = Call(<<"statement_proxy", "statement_use">>[i], session_id)
                 ELSE Len(Submitted) < i
            /\ pc = "init_use" => Len(Submitted) = 1
            /\ Done("connect", "ok") => Len(Submitted) = 2 /\ result.id = session_id
            /\ Done("connect", "StatementError") =>
                 /\ result.id = NoId
                 /\ Len(Submitted) >= 1
                 /\ IsInitStatement(calls[Len(calls)]))
    /\ [][(pc = "init_proxy" /\ SessionNotReady /\ calls' # calls) =>
            /\ ConnectRaisedStatementError
            /\ Len(SelectSeq(calls', IsInitStatement)) = 1]_vars
    /\ [][(pc = "init_use" /\ SessionNotReady /\ calls' # calls) =>
            ConnectRaisedStatementError]_vars

\* connect() raised because the SQLPROXY statement failed on a session that
\* was READY, and the default-database statement was not submitted
C16_Witness ==
    /\ Done("connect", "StatementError")
    /\ Submitted = <<Call("statement_proxy", session_id)>>
    /\ remote[session_id] = READY

\* the statements of a batch: the non-empty pieces between the ";"
IsStatement(q) == Len(q) > 0
Statements(str) == SelectSeq(Split(str), IsStatement)

\* C17: for every ";"-delimited batch passed to execute(), the statements
\* run in order and exactly one envelope is printed, that of the final
\* statement (every other statement runs silently); batches that end with
\* ";" and batches that repeat the text of the last statement included.
C17_BatchPrintsOnlyLastEnvelope ==
    (proxyOut.called /\ IsBatch(sql) /\ Statements(sql) # <<>>) =>
        /\ proxyOut.ran = Statements(sql)
        /\ Len(proxyOut.printed) = 1
        /\ proxyOut.printed[1].of = Statements(sql)[Len(Statements(sql))]

\* C18: when the describe statement of get_columns_in_relation fails, at
\* execute or while its rows are fetched, the caller sees a raised failure
\* and not a column list.
C18_DescribeFailureIsRaised ==
    (columnsOut.called /\ describe.fail # "none") => columnsOut.raised

\* C19: credentials.session_id is written only at the successful end of
\* connect(): when connect() has returned it equals the returned id and the
\* connection's session_id; while an operation runs, after a connect() that
\* raised and after any other operation it is what it was at the call.
C19_CredentialsWrittenOnSuccess ==
    /\ Done("connect", "ok") =>
          /\ result.id # NoId
          /\ cred_session_id = result.id
          /\ session_id = result.id
    /\ ((pc # "idle" \/ result.op # "none") /\ ~Done("connect", "ok")) =>
          cred_session_id = atCall.cred

\* connect() replaced the session the credentials named and returned: the
\* credentials now carry the new id
C19_Witness ==
    /\ Done("connect", "ok")
    /\ atCall.cred # NoId
    /\ cred_session_id # atCall.cred

RejectedCreate ==
    /\ pc = "create"
    /\ calls' = Append(calls, Call("create_session", NoId))

CreatedHere ==
    /\ session_id # NoId
    /\ \E i \in Issued("create_session") : calls[i].id = session_id

\* C21: once _start_session() has returned a session it created (connect()
\* is at or past the initialisation statements), some get_session call for
\* that new id reported READY, whatever state was cached before.
C21_NewSessionObservedReady ==
    (InConnect /\ CreatedHere
        /\ (pc \in {"init_proxy", "init_use"}
              \/ Done("connect", "ok") \/ Done("connect", "StatementError")))
    => session_id \in observedReady

\* C22: a call execute(sql, output=True) on a single statement (no ";")
\* prints exactly one envelope, of that statement: the null-schema variant
\* when its result has no columns and the full variant otherwise.
C22_SingleStatementPrintsOneEnvelope ==
    (proxyOut.called /\ proxyOut.output /\ ~IsBatch(sql)) =>
        /\ proxyOut.ran = <<sql>>
        /\ proxyOut.printed =
              <<IF HasColumns(sql) THEN RowsEnvelope(sql) ELSE NullEnvelope(sql)>>

\* C23: in every full envelope each record's data mapping lists exactly the
\* columns of description, in the order of description, with the values of
\* the row, and the records are in the order the rows were collected.
C23_RecordsFollowDescription ==
    envelopeOut.called =>
        /\ Len(envelopeOut.results) = Len(frame.rows)
        /\ \A r \in 1..Len(frame.rows) :
              LET data == envelopeOut.results[r]
              IN  /\ Len(data) = Len(envelopeOut.description)
                  /\ \A i \in 1..Len(data) :
                        /\ data[i].key = envelopeOut.description[i]
                        /\ data[i].value = frame.rows[r][i]

\* the connect() in progress follows a connect() that raised
RetryAfterFailedConnect ==
    /\ pc # "idle"
    /\ prev.op = "connect"
    /\ prev.kind # "ok"

\* C24: in a connect() that follows a connect() that raised, once the
\* service has accepted the creation, an iteration of the poll loop made
\* before the deadline while the service serves the new session as READY
\* (and answers get_session, if asked) ends the wait: connect() goes on to
\* the initialisation statements.
C24_FailedConnectDoesNotPoison ==
    [][(/\ RetryAfterFailedConnect
        /\ pc = "poll"
        /\ remote[session_id] = READY
        /\ ~DeadlinePassed(elapsed, timeout)
        /\ (pc' # pc \/ pollReads' # pollReads)
        /\ lastRead'.resp # ERROR)
       => (pc' = "init_proxy")]_vars

\* close_session() is called right after a connect() returned or raised
CloseSessionAfterConnect ==
    /\ pc = "idle"
    /\ result.op = "connect"
    /\ result'.op = "close_session"

\* C25: when close_session() is called after a connect() that created a
\* session (whether that connect() returned, timed out or failed at an
\* initialisation statement) and the session has not been deleted since,
\* close_session() requests the deletion of that session.
C25_CloseSessionReachesCreatedSession ==
    [][CloseSessionAfterConnect =>
         \A i \in Issued("create_session") :
            (calls[i].id # NoId /\ remote[calls[i].id] \notin {CLOSED, ABSENT})
               => (calls' = <<Call("delete_session", calls[i].id)>>)]_vars

\* the connect() in progress / last finished was called right after a
\* close_session()
ConnectAfterCloseSession ==
    /\ InConnect
    /\ prev.op = "close_session"

\* C26: once close_session() has requested a deletion the connection holds
\* no current session id (neither session_id nor credentials.session_id),
\* and a connect() called next submits its initialisation statements only
\* to a session it has created itself.
C26_ClosedSessionIsForgotten ==
    /\ (pc = "idle" /\ result.op = "close_session" /\ calls # <<>>) =>
          /\ session_id = NoId
          /\ cred_session_id = NoId
    /\ ConnectAfterCloseSession =>
          \A i \in 1..Len(calls) :
             IsInitStatement(calls[i]) =>
                \E j \in 1..(i - 1) : calls[j] = Call("create_session", calls[i].id)

\* the poll loop of the connect() in progress / last finished has been told
\* by get_session that the session it created is FAILED
ProvisioningReportedFailed ==
    /\ InConnect
    /\ CreatedHere
    /\ _state = FAILED
    /\ atCall.state # FAILED

\* C27: when get_session reports the session connect() has just created as
\* FAILED, that answer is cached and the loop does not go on to the
\* initialisation statements; from then on the poll loop issues no call at
\* all (no get_session, no statement), keeps FAILED cached, leaves the
\* credentials alone, and is left only by raising TimeoutError once the
\* deadline has passed, which eventually happens.
C27_FailedProvisioningTimesOut ==
    /\ [][(pc = "poll" /\ calls' # calls /\ lastRead'.resp = FAILED)
             => (_state' = FAILED /\ pc' # "init_proxy")]_vars
    /\ [][(pc = "poll" /\ ProvisioningReportedFailed)
             => /\ _state' = FAILED
                /\ calls' = calls
                /\ cred_session_id' = cred_session_id
                /\ \/ pc' = "poll"
                   \/ /\ DeadlinePassed(elapsed, timeout)
                      /\ pc' = "idle"
                      /\ result' = [op |-> "connect", kind |-> "TimeoutError",
                                    id |-> NoId]]_vars
    /\ (pc = "poll" /\ ProvisioningReportedFailed)
          ~> (Done("connect", "TimeoutError") /\ ProvisioningReportedFailed)

\* connect() raised TimeoutError after its new session was reported FAILED,
\* with iterations of the loop in between that asked the service nothing
C27_Witness ==
    /\ Done("connect", "TimeoutError")
    /\ ProvisioningReportedFailed
    /\ lastRead.cached = FAILED
    /\ lastRead.gets = 0
    /\ Cardinality(Issued("get_session")) >= 1

\* C28: the write hudi_merge_table makes is destructive (bulk_insert with
\* mode Overwrite) only when the target table is not in the catalog; when
\* the table is in the catalog, whatever get_table answered or raised, a
\* write that is made is upsert with Append.
C28_OverwriteOnlyWhenTableMissing ==
    (mergeOut.called /\ mergeOut.run.written # NoWrite) =>
        /\ mergeOut.run.written.mode = "Overwrite" => ~merge.exists
        /\ merge.exists =>
              mergeOut.run.written = [operation |-> "upsert", mode |-> "Append"]

====
